---- MODULE Spec2Model ----
(***************************************************************************)
(* Model of the todo list-and-detail viewer.                               *)
(*                                                                         *)
(*   TodoList   (src/src/components/todo-list.component.tsx)               *)
(*   TodoDetail (src/unnamed/part_000, i.e. src/components/TodoDetail.tsx) *)
(*                                                                         *)
(* Each component is a set of React state cells plus the asynchronous      *)
(* fetch helper it starts from an effect.  An `await` is a suspension      *)
(* point: the code before it and the code after it are different steps,    *)
(* and any other handler may run in between.                               *)
(***************************************************************************)
EXTENDS Integers, Sequences, FiniteSets, TLC

\* ---------------------------------------------------------------- bounds
MaxTodos == 3        \* longest collection the collection endpoint returns
MaxId == 2           \* identifiers the parent hands to the detail view
MaxFetches == 3      \* detail fetches issued in one run (mount + changes)

\* ------------------------------------------------------------ data model
Filters == {"all", "open", "completed"}

TitleOf(i) == IF i = 1 THEN "Buy milk" ELSE IF i = 2 THEN "Pay bills" ELSE "Todo"

\* A Todo record as the remote service sends it.
Todo(i, c) == [id |-> i, title |-> TitleOf(i), completed |-> c]

RECURSIVE CollectionsOfLen(_)
CollectionsOfLen(n) ==
  IF n = 0 THEN {<<>>}
  ELSE {Append(s, Todo(n, c)) : s \in CollectionsOfLen(n - 1), c \in BOOLEAN}

\* Bodies the collection endpoint may answer with.
Collections == UNION {CollectionsOfLen(n) : n \in 0..MaxTodos}

Ids == 1..MaxId

\* Body the single-resource endpoint answers with for /todos/{id}.
DetailResponse(i) == Todo(i, i % 2 = 0)

\* Status codes of a response whose `ok` is false.
Statuses == {"404", "500"}

\* Descriptions of the failures fetch() and json() reject with.
NetworkMessages == {"Failed to fetch"}
ParseMessages == {"Unexpected token"}

\* An error cell holds null or a message; a message is a tuple of its parts.
NoError == <<>>
\* The todo cell of the detail view holds null or one record.
NoTodo == <<>>

\* HttpErrorMessage with a fixed text that leaves the status out.
HttpErrorMessageGeneric(s) == <<"HTTP error!">>

\* `HTTP error! Status: ${response.status}`
HttpErrorMessage(s) == <<"HTTP error! Status: ", s>>
\* 'Failed to fetch todo'
DetailHttpErrorMessage == <<"Failed to fetch todo">>
\* (error as Error).message
MessageOf(m) == <<m>>

VARIABLES
  \* TodoList
  todos, filteredTodos, loading, error, activeFilter,
  listFetch,      \* position of fetchTodos
  listPromise,    \* state of the promise fetchTodos returned
  listIssued,     \* number of GETs sent to the collection endpoint
  listAlive,      \* FALSE once TodoList has been unmounted
  lastFilter,     \* the run of handleFilter(f) calls just made: <<>>, <<f>> or <<f, f>>
  selected,       \* what onSelectTodo was last called with: <<>> or <<id>>
  listView,       \* the JSX of TodoList for the current state cells
  \* TodoDetail
  todoId, todo, detailLoading, detailError,
  reqs,           \* the fetchTodo calls issued so far, in issue order
  settleOrder,    \* indexes of reqs in the order they settled
  detailAlive,    \* FALSE once TodoDetail has been unmounted
  detailView      \* the JSX of TodoDetail for the current state cells

listVars == <<todos, filteredTodos, loading, error, activeFilter, listFetch,
              listPromise, listIssued, listAlive, lastFilter, selected, listView>>
detailVars == <<todoId, todo, detailLoading, detailError, reqs, settleOrder,
                detailAlive, detailView>>
vars == <<todos, filteredTodos, loading, error, activeFilter, listFetch,
          listPromise, listIssued, listAlive, lastFilter, selected, listView,
          todoId, todo, detailLoading, detailError, reqs, settleOrder,
          detailAlive, detailView>>

\* ------------------------------------------------------- pure functions

\* Array.prototype.filter with the predicate (todo) => todo.completed = c.
RECURSIVE FilterCompleted(_, _)
FilterCompleted(s, c) ==
  IF s = <<>> THEN <<>>
  ELSE IF Head(s).completed = c
       THEN <<Head(s)>> \o FilterCompleted(Tail(s), c)
       ELSE FilterCompleted(Tail(s), c)

\* Project with the two predicates exchanged.
ProjectSwapped(ts, f) ==
  CASE f = "completed" -> FilterCompleted(ts, FALSE)
    [] f = "open"      -> FilterCompleted(ts, TRUE)
    [] OTHER           -> ts

\* The switch of handleFilter: the subset a filter value selects.
Project(ts, f) ==
  CASE f = "completed" -> FilterCompleted(ts, TRUE)
    [] f = "open"      -> FilterCompleted(ts, FALSE)
    [] OTHER           -> ts

\* One <li> of the list.
Row(t) == [testid |-> t.id, title |-> t.title,
           glyph |-> IF t.completed THEN "done" ELSE "notdone"]

\* RenderList with the list guarded by !loading only.
RenderListNoErrorGuard(ts, ld, er, af) ==
  [ active    |-> af,
    loadingP  |-> ld,
    errorP    |-> er,
    ul        |-> ~ld,
    rows      |-> IF ~ld THEN [i \in 1..Len(ts) |-> Row(ts[i])] ELSE <<>> ]

\* The JSX TodoList returns, as a function of its state cells.
RenderList(ts, ld, er, af) ==
  [ active    |-> af,
    loadingP  |-> ld,
    errorP    |-> er,
    ul        |-> (~ld /\ er = NoError),
    rows      |-> IF ~ld /\ er = NoError
                  THEN [i \in 1..Len(ts) |-> Row(ts[i])]
                  ELSE <<>> ]

\* The record block of the detail view.
Content(t) == [id |-> t.id, title |-> t.title,
               status |-> IF t.completed THEN "Completed" ELSE "Open"]

\* The JSX TodoDetail returns, as a function of its state cells.
RenderDetail(t, ld, er) ==
  [ loadingP |-> ld,
    errorP   |-> er,
    content  |-> IF t # NoTodo THEN <<Content(t[1])>> ELSE <<>> ]

\* ------------------------------------------------------------------ Init
Init ==
  /\ todos = <<>>
  /\ filteredTodos = <<>>
  /\ loading = FALSE
  /\ error = NoError
  /\ activeFilter = "all"
  /\ listFetch = "unissued"
  /\ listPromise = "none"
  /\ listIssued = 0
  /\ listAlive = TRUE
  /\ lastFilter = <<>>
  /\ selected = <<>>
  /\ listView = RenderList(<<>>, FALSE, NoError, "all")
  /\ todoId \in Ids
  /\ todo = NoTodo
  /\ detailLoading = FALSE
  /\ detailError = NoError
  /\ reqs = <<>>
  /\ settleOrder = <<>>
  /\ detailAlive = TRUE
  /\ detailView = RenderDetail(NoTodo, FALSE, NoError)

\* ------------------------------------------------------ TodoList actions

ListRerender ==
  listView' = RenderList(filteredTodos', loading', error', activeFilter')

\* ListMount with fetchTodos called twice by the effect.
ListMountIssuesTwice ==
  /\ listFetch = "unissued"
  /\ listAlive
  /\ loading' = TRUE
  /\ listFetch' = "fetching"
  /\ listPromise' = "pending"
  /\ listIssued' = listIssued + 2
  /\ lastFilter' = <<>>
  /\ UNCHANGED <<todos, filteredTodos, error, activeFilter, listAlive, selected>>
  /\ listView' = RenderList(filteredTodos', loading', error', activeFilter')
  /\ UNCHANGED detailVars

\* useEffect(..., []) on mount: fetchTodos runs up to its first await.
ListMount ==
  /\ listFetch = "unissued"
  /\ listAlive
  /\ loading' = TRUE
  /\ listFetch' = "fetching"
  /\ listPromise' = "pending"
  /\ listIssued' = listIssued + 1
  /\ lastFilter' = <<>>
  /\ UNCHANGED <<todos, filteredTodos, error, activeFilter, listAlive, selected>>
  /\ ListRerender
  /\ UNCHANGED detailVars

\* fetch() resolves with response.ok: fetchTodos suspends again on json().
ListFetchOk ==
  /\ listFetch = "fetching"
  /\ listFetch' = "parsing"
  /\ lastFilter' = <<>>
  /\ UNCHANGED <<todos, filteredTodos, loading, error, activeFilter,
                 listPromise, listIssued, listAlive, selected>>
  /\ ListRerender
  /\ UNCHANGED detailVars

\* ListFail with setLoading(false) at the end of the try block instead of in
\* finally: a failure leaves the flag as it was.
ListFailNoRelease(m, outcome) ==
  /\ error' = m
  /\ listFetch' = outcome
  /\ listPromise' = "fulfilled"
  /\ lastFilter' = <<>>
  /\ UNCHANGED <<todos, filteredTodos, loading, activeFilter,
                 listIssued, listAlive, selected>>
  /\ listView' = RenderList(filteredTodos', loading', error', activeFilter')
  /\ UNCHANGED detailVars

\* ListFail with a catch block that records the failure and throws it again.
ListFailRethrows(m, outcome) ==
  /\ error' = m
  /\ loading' = FALSE
  /\ listFetch' = outcome
  /\ listPromise' = "rejected"
  /\ lastFilter' = <<>>
  /\ UNCHANGED <<todos, filteredTodos, activeFilter, listIssued, listAlive, selected>>
  /\ listView' = RenderList(filteredTodos', loading', error', activeFilter')
  /\ UNCHANGED detailVars

\* ListFail with a catch block that records the failure and calls fetch again.
ListFailRetries(m, outcome) ==
  /\ error' = m
  /\ IF listIssued < 2
     THEN /\ listFetch' = "fetching"
          /\ listIssued' = listIssued + 1
          /\ UNCHANGED <<loading, listPromise>>
     ELSE /\ listFetch' = outcome
          /\ loading' = FALSE
          /\ listPromise' = "fulfilled"
          /\ UNCHANGED listIssued
  /\ lastFilter' = <<>>
  /\ UNCHANGED <<todos, filteredTodos, activeFilter, listAlive, selected>>
  /\ listView' = RenderList(filteredTodos', loading', error', activeFilter')
  /\ UNCHANGED detailVars

\* catch + finally of fetchTodos, for a failure with message m.
ListFail(m, outcome) ==
  /\ error' = m
  /\ loading' = FALSE
  /\ listFetch' = outcome
  /\ listPromise' = "fulfilled"
  /\ lastFilter' = <<>>
  /\ UNCHANGED <<todos, filteredTodos, activeFilter, listIssued, listAlive, selected>>
  /\ ListRerender
  /\ UNCHANGED detailVars

\* fetch() resolves with !response.ok: the helper throws, catches, releases.
ListFetchNotOk(s) ==
  /\ listFetch = "fetching"
  /\ ListFail(HttpErrorMessage(s), "httpError")

\* fetch() rejects.
ListFetchReject(m) ==
  /\ listFetch = "fetching"
  /\ ListFail(MessageOf(m), "networkError")

\* ListJsonOk that keeps the filtered subset in step with the active filter.
ListJsonOkProjected(data) ==
  /\ listFetch = "parsing"
  /\ todos' = data
  /\ filteredTodos' = Project(data, activeFilter)
  /\ loading' = FALSE
  /\ listFetch' = "ok"
  /\ listPromise' = "fulfilled"
  /\ lastFilter' = <<>>
  /\ UNCHANGED <<error, activeFilter, listIssued, listAlive, selected>>
  /\ listView' = RenderList(filteredTodos', loading', error', activeFilter')
  /\ UNCHANGED detailVars

\* ListJsonOk without setTodos(data).
ListJsonOkFilteredOnly(data) ==
  /\ listFetch = "parsing"
  /\ filteredTodos' = data
  /\ loading' = FALSE
  /\ listFetch' = "ok"
  /\ listPromise' = "fulfilled"
  /\ lastFilter' = <<>>
  /\ UNCHANGED <<todos, error, activeFilter, listIssued, listAlive, selected>>
  /\ listView' = RenderList(filteredTodos', loading', error', activeFilter')
  /\ UNCHANGED detailVars

\* response.json() resolves with data.
ListJsonOk(data) ==
  /\ listFetch = "parsing"
  /\ todos' = data
  /\ filteredTodos' = data
  /\ loading' = FALSE
  /\ listFetch' = "ok"
  /\ listPromise' = "fulfilled"
  /\ lastFilter' = <<>>
  /\ UNCHANGED <<error, activeFilter, listIssued, listAlive, selected>>
  /\ ListRerender
  /\ UNCHANGED detailVars

\* response.json() rejects.
ListJsonReject(m) ==
  /\ listFetch = "parsing"
  /\ ListFail(MessageOf(m), "parseError")

\* handleFilter that switches back to "all" when the active filter is
\* clicked again.
handleFilterToggles(f) ==
  /\ listAlive
  /\ listFetch # "unissued"
  /\ activeFilter' = (IF f = activeFilter THEN "all" ELSE f)
  /\ filteredTodos' = Project(todos, activeFilter')
  /\ lastFilter' = (IF lastFilter # <<>> /\ lastFilter[1] = f THEN <<f, f>> ELSE <<f>>)
  /\ UNCHANGED <<todos, loading, error, listFetch, listPromise, listIssued,
                 listAlive, selected>>
  /\ listView' = RenderList(filteredTodos', loading', error', activeFilter')
  /\ UNCHANGED detailVars

\* A click on one of the three filter buttons (the first click comes after
\* the mount effect, which React flushes before it handles an event).
handleFilter(f) ==
  /\ listAlive
  /\ listFetch # "unissued"
  /\ activeFilter' = f
  /\ filteredTodos' = Project(todos, f)
  /\ lastFilter' = (IF lastFilter # <<>> /\ lastFilter[1] = f THEN <<f, f>> ELSE <<f>>)
  /\ UNCHANGED <<todos, loading, error, listFetch, listPromise, listIssued,
                 listAlive, selected>>
  /\ ListRerender
  /\ UNCHANGED detailVars

\* A click on the button of row i: onSelectTodo(todo.id).
selectTodo(i) ==
  /\ listAlive
  /\ listView.ul
  /\ i \in 1..Len(filteredTodos)
  /\ selected' = <<filteredTodos[i].id>>
  /\ lastFilter' = <<>>
  /\ UNCHANGED <<todos, filteredTodos, loading, error, activeFilter, listFetch,
                 listPromise, listIssued, listAlive>>
  /\ ListRerender
  /\ UNCHANGED detailVars

\* The parent removes TodoList; a fetchTodos call in flight keeps running.
ListUnmount ==
  /\ listAlive
  /\ listFetch # "unissued"
  /\ listAlive' = FALSE
  /\ lastFilter' = <<>>
  /\ UNCHANGED <<todos, filteredTodos, loading, error, activeFilter, listFetch,
                 listPromise, listIssued, selected>>
  /\ ListRerender
  /\ UNCHANGED detailVars

ListNext ==
  \/ ListMount
  \/ ListFetchOk
  \/ \E s \in Statuses : ListFetchNotOk(s)
  \/ \E m \in NetworkMessages : ListFetchReject(m)
  \/ \E data \in Collections : ListJsonOk(data)
  \/ \E m \in ParseMessages : ListJsonReject(m)
  \/ \E f \in Filters : handleFilter(f)
  \/ \E i \in 1..MaxTodos : selectTodo(i)
  \/ ListUnmount

ListSpec == Init /\ [][ListNext]_vars

\* ---------------------------------------------------- TodoDetail actions

Pending(i) == reqs[i].stage \in {"fetching", "parsing"}

DetailRerender ==
  detailView' = RenderDetail(todo', detailLoading', detailError')

\* IssueFetch that blanks the record and the error before fetching.
IssueFetchResets(i) ==
  /\ detailLoading' = TRUE
  /\ todo' = NoTodo
  /\ detailError' = NoError
  /\ reqs' = Append(reqs, [id |-> i, stage |-> "fetching", promise |-> "pending"])
  /\ UNCHANGED settleOrder

\* fetchTodo up to its first await, for the identifier i.
IssueFetch(i) ==
  /\ detailLoading' = TRUE
  /\ reqs' = Append(reqs, [id |-> i, stage |-> "fetching", promise |-> "pending"])
  /\ UNCHANGED <<todo, detailError, settleOrder>>

\* useEffect(..., [todoId]) on first mount.
DetailMount ==
  /\ reqs = <<>>
  /\ detailAlive
  /\ IssueFetch(todoId)
  /\ UNCHANGED <<todoId, detailAlive>>
  /\ DetailRerender
  /\ UNCHANGED listVars

\* ChangeTodoId with an effect that has no dependency array: it runs on
\* every render, whether or not todoId changed.
ChangeTodoIdEveryRender(b) ==
  /\ reqs # <<>>
  /\ detailAlive
  /\ Len(reqs) < MaxFetches
  /\ todoId' = b
  /\ IssueFetch(b)
  /\ UNCHANGED detailAlive
  /\ detailView' = RenderDetail(todo', detailLoading', detailError')
  /\ UNCHANGED listVars

\* The parent renders TodoDetail again with todoId = b: the effect runs
\* again only when b differs from the todoId of the previous render.
ChangeTodoId(b) ==
  /\ reqs # <<>>
  /\ detailAlive
  /\ Len(reqs) < MaxFetches
  /\ todoId' = b
  /\ IF b # todoId
     THEN IssueFetch(b)
     ELSE UNCHANGED <<detailLoading, reqs, todo, detailError, settleOrder>>
  /\ UNCHANGED detailAlive
  /\ DetailRerender
  /\ UNCHANGED listVars

\* fetch() of call n resolves with res.ok: the call suspends again on json().
DetailFetchOk(n) ==
  /\ reqs[n].stage = "fetching"
  /\ reqs' = [reqs EXCEPT ![n].stage = "parsing"]
  /\ UNCHANGED <<todoId, todo, detailLoading, detailError, settleOrder, detailAlive>>
  /\ DetailRerender
  /\ UNCHANGED listVars

\* DetailFail that also drops the stored record.
DetailFailClearsRecord(n, m, outcome) ==
  /\ detailError' = m
  /\ detailLoading' = FALSE
  /\ todo' = NoTodo
  /\ reqs' = [reqs EXCEPT ![n].stage = outcome, ![n].promise = "fulfilled"]
  /\ settleOrder' = Append(settleOrder, n)
  /\ UNCHANGED <<todoId, detailAlive>>
  /\ detailView' = RenderDetail(todo', detailLoading', detailError')
  /\ UNCHANGED listVars

\* catch + finally of call n, for a failure with message m.
DetailFail(n, m, outcome) ==
  /\ detailError' = m
  /\ detailLoading' = FALSE
  /\ reqs' = [reqs EXCEPT ![n].stage = outcome, ![n].promise = "fulfilled"]
  /\ settleOrder' = Append(settleOrder, n)
  /\ UNCHANGED <<todoId, todo, detailAlive>>
  /\ DetailRerender
  /\ UNCHANGED listVars

\* fetch() of call n resolves with !res.ok.
DetailFetchNotOk(n) ==
  /\ reqs[n].stage = "fetching"
  /\ DetailFail(n, DetailHttpErrorMessage, "httpError")

\* fetch() of call n rejects.
DetailFetchReject(n, m) ==
  /\ reqs[n].stage = "fetching"
  /\ DetailFail(n, MessageOf(m), "networkError")

\* DetailJsonOk that applies a response only when it answers the current
\* todoId (a generation check), and discards it otherwise.
DetailJsonOkLatestOnly(n) ==
  /\ reqs[n].stage = "parsing"
  /\ IF reqs[n].id = todoId
     THEN todo' = <<DetailResponse(reqs[n].id)>> /\ detailError' = NoError
     ELSE UNCHANGED <<todo, detailError>>
  /\ detailLoading' = FALSE
  /\ reqs' = [reqs EXCEPT ![n].stage = "ok", ![n].promise = "fulfilled"]
  /\ settleOrder' = Append(settleOrder, n)
  /\ UNCHANGED <<todoId, detailAlive>>
  /\ detailView' = RenderDetail(todo', detailLoading', detailError')
  /\ UNCHANGED listVars

\* DetailJsonOk without setError(null).
DetailJsonOkKeepsError(n) ==
  /\ reqs[n].stage = "parsing"
  /\ todo' = <<DetailResponse(reqs[n].id)>>
  /\ detailLoading' = FALSE
  /\ reqs' = [reqs EXCEPT ![n].stage = "ok", ![n].promise = "fulfilled"]
  /\ settleOrder' = Append(settleOrder, n)
  /\ UNCHANGED <<todoId, detailError, detailAlive>>
  /\ detailView' = RenderDetail(todo', detailLoading', detailError')
  /\ UNCHANGED listVars

\* res.json() of call n resolves with the record of the requested identifier.
DetailJsonOk(n) ==
  /\ reqs[n].stage = "parsing"
  /\ todo' = <<DetailResponse(reqs[n].id)>>
  /\ detailError' = NoError
  /\ detailLoading' = FALSE
  /\ reqs' = [reqs EXCEPT ![n].stage = "ok", ![n].promise = "fulfilled"]
  /\ settleOrder' = Append(settleOrder, n)
  /\ UNCHANGED <<todoId, detailAlive>>
  /\ DetailRerender
  /\ UNCHANGED listVars

\* res.json() of call n rejects.
DetailJsonReject(n, m) ==
  /\ reqs[n].stage = "parsing"
  /\ DetailFail(n, MessageOf(m), "parseError")

\* The parent removes TodoDetail; fetchTodo calls in flight keep running.
DetailUnmount ==
  /\ detailAlive
  /\ reqs # <<>>
  /\ detailAlive' = FALSE
  /\ UNCHANGED <<todoId, todo, detailLoading, detailError, reqs, settleOrder>>
  /\ DetailRerender
  /\ UNCHANGED listVars

DetailNext ==
  \/ DetailMount
  \/ \E b \in Ids : ChangeTodoId(b)
  \/ \E n \in DOMAIN reqs : DetailFetchOk(n)
  \/ \E n \in DOMAIN reqs : DetailFetchNotOk(n)
  \/ \E n \in DOMAIN reqs : \E m \in NetworkMessages : DetailFetchReject(n, m)
  \/ \E n \in DOMAIN reqs : DetailJsonOk(n)
  \/ \E n \in DOMAIN reqs : \E m \in ParseMessages : DetailJsonReject(n, m)
  \/ DetailUnmount

DetailSpec == Init /\ [][DetailNext]_vars

\* Both views side by side, each with the one fetch its mount starts: the
\* steps of fetchTodos and of fetchTodo, and the teardown of either view.
HelpersNext ==
  \/ ListMount
  \/ ListFetchOk
  \/ \E s \in Statuses : ListFetchNotOk(s)
  \/ \E m \in NetworkMessages : ListFetchReject(m)
  \/ \E data \in Collections : ListJsonOk(data)
  \/ \E m \in ParseMessages : ListJsonReject(m)
  \/ ListUnmount
  \/ DetailMount
  \/ \E n \in DOMAIN reqs : DetailFetchOk(n)
  \/ \E n \in DOMAIN reqs : DetailFetchNotOk(n)
  \/ \E n \in DOMAIN reqs : \E m \in NetworkMessages : DetailFetchReject(n, m)
  \/ \E n \in DOMAIN reqs : DetailJsonOk(n)
  \/ \E n \in DOMAIN reqs : \E m \in ParseMessages : DetailJsonReject(n, m)
  \/ DetailUnmount

HelpersSpec == Init /\ [][HelpersNext]_vars

\* ===================================================== properties: list

ListPending == listFetch \in {"fetching", "parsing"}
ListSettled == listFetch \in {"ok", "httpError", "networkError", "parseError"}

\* C1: the list's loading flag is false before the collection request is
\* issued, true in every state in which it is pending and false in every
\* state after it settled, whatever the outcome; once the request has
\* settled the flag never becomes true again.
C1_LoadingTracksListFetch ==
  /\ [](loading <=> ListPending)
  /\ [][ListSettled => (ListSettled' /\ ~loading')]_vars

\* The request failed while parsing, after a filter was selected during the
\* pending interval, and the flag is released.
C1_Witness ==
  /\ listFetch = "parseError"
  /\ activeFilter = "open"
  /\ ~loading

RowsMatch(rows, ts) ==
  /\ Len(rows) = Len(ts)
  /\ \A i \in 1..Len(ts) :
       /\ rows[i].testid = ts[i].id
       /\ rows[i].title = ts[i].title
       /\ rows[i].glyph = (IF ts[i].completed THEN "done" ELSE "notdone")

\* C4: the list is rendered if and only if loading is false and error is
\* null; when rendered its rows are the items of the filtered subset, one
\* per item and in order; otherwise no row is rendered.
C4_RowsIffReady ==
  /\ listView.ul <=> (~loading /\ error = NoError)
  /\ listView.ul => RowsMatch(listView.rows, filteredTodos)
  /\ ~listView.ul => listView.rows = <<>>

\* After a successful load the list is rendered, narrowed by a filter to
\* two rows of a collection of three.
C4_Witness ==
  /\ listView.ul
  /\ activeFilter = "completed"
  /\ Len(listView.rows) = 2
  /\ Len(todos) = 3

\* C5: in every reachable state the filtered subset is the projection of
\* the full collection by the active filter.
C5_FilteredIsProjection ==
  filteredTodos = Project(todos, activeFilter)

IsCompleted(t) == t.completed
IsOpen(t) == ~t.completed
IdsOf(ts) == {ts[i].id : i \in 1..Len(ts)}

\* C7: handleFilter(f) makes f the active filter and the filtered subset, in
\* collection order, the completed items (f = completed), the open items
\* (f = open) or the whole collection (f = all); the open and completed
\* results are disjoint and together contain every item; the full
\* collection, loading and error are unchanged.
C7_HandleFilterProjects ==
  [][\A f \in Filters : handleFilter(f) =>
       /\ activeFilter' = f
       /\ f = "completed" => filteredTodos' = SelectSeq(todos, IsCompleted)
       /\ f = "open" => filteredTodos' = SelectSeq(todos, IsOpen)
       /\ f = "all" => filteredTodos' = todos
       /\ IdsOf(Project(todos, "open")) \cap IdsOf(Project(todos, "completed")) = {}
       /\ IdsOf(Project(todos, "open")) \cup IdsOf(Project(todos, "completed")) = IdsOf(todos)
       /\ Len(Project(todos, "open")) + Len(Project(todos, "completed")) = Len(todos)
       /\ Len(Project(todos, "all")) = Len(todos)
       /\ UNCHANGED <<todos, loading, error>>]_vars

\* The collection of scenario A plus one more open item, narrowed to the
\* one completed item.
C7_Witness ==
  /\ activeFilter = "completed"
  /\ Len(todos) = 3
  /\ Len(filteredTodos) = 1
  /\ filteredTodos[1].id = 2
  /\ todos[1].completed = FALSE
  /\ todos[3].completed = FALSE

\* C8: when the collection request settles successfully both the full
\* collection and the filtered subset become the response sequence, error
\* stays null and loading becomes false, whatever filter was selected before.
C8_ListSuccess ==
  [][\A data \in Collections : ListJsonOk(data) =>
       /\ todos' = data
       /\ filteredTodos' = data
       /\ error = NoError /\ error' = NoError
       /\ ~loading'
       /\ activeFilter' = activeFilter]_vars

\* A success that arrived after "open" was selected: the raw set is shown
\* although it holds a completed item.
C8_Witness ==
  /\ listFetch = "ok"
  /\ activeFilter = "open"
  /\ Len(todos) = 2
  /\ todos[2].completed
  /\ filteredTodos = todos
  /\ error = NoError
  /\ ~loading

\* =================================================== properties: detail

Failed(stage) == stage \in {"httpError", "networkError", "parseError"}

\* C2: the detail view's loading flag is true exactly when at least one of
\* its fetches is still pending.
C2_LoadingIffSomePending ==
  detailLoading <=> (\E n \in DOMAIN reqs : Pending(n))

\* C3: if error is set no record content is rendered; record content is
\* rendered only when loading is false, error is absent and a record is
\* loaded.
C3_ErrorHidesContent ==
  /\ detailError # NoError => detailView.content = <<>>
  /\ detailView.content # <<>> =>
       (~detailLoading /\ detailError = NoError /\ todo # NoTodo)

LastSettled == settleOrder[Len(settleOrder)]

\* C6: no fetch is cancelled by a later one; the stored record is the
\* response of the fetch that succeeded last in settlement order, whatever
\* the issue order and whatever todoId is now.
C6_LastSettledWins ==
  /\ \A n \in DOMAIN reqs : reqs[n].stage = "ok" =>
       \E k \in DOMAIN settleOrder : settleOrder[k] = n
  /\ (settleOrder # <<>> /\ reqs[LastSettled].stage = "ok") =>
       todo = <<DetailResponse(reqs[LastSettled].id)>>

\* todoId went from a to b while a was pending, b settled first and a last:
\* the view shows a while todoId is b.
C6_Witness ==
  /\ Len(reqs) = 2
  /\ reqs[1].stage = "ok" /\ reqs[2].stage = "ok"
  /\ settleOrder = <<2, 1>>
  /\ todoId = reqs[2].id
  /\ todo # NoTodo
  /\ todo[1].id = reqs[1].id
  /\ todo[1].id # todoId

\* C9: whenever a detail fetch settles successfully the stored record
\* becomes that response's Todo and error becomes null.
C9_SuccessStoresAndClears ==
  [][\A n \in DOMAIN reqs :
       (reqs[n].stage = "parsing" /\ reqs'[n].stage = "ok") =>
         /\ todo' = <<DetailResponse(reqs[n].id)>>
         /\ detailError' = NoError]_vars

\* Fetch for a failed, todoId changed to b, fetch for b succeeded.
C9_Witness ==
  /\ Len(reqs) = 2
  /\ Failed(reqs[1].stage)
  /\ reqs[2].stage = "ok"
  /\ settleOrder = <<1, 2>>
  /\ reqs[2].id # reqs[1].id
  /\ todo = <<DetailResponse(reqs[2].id)>>
  /\ detailError = NoError

FailureMessages ==
  {DetailHttpErrorMessage} \cup {MessageOf(m) : m \in NetworkMessages \cup ParseMessages}

\* C10: whenever a detail fetch settles with a failure, error is set to a
\* failure description and the stored record is left exactly as it was.
C10_FailureKeepsRecord ==
  [][\A n \in DOMAIN reqs :
       (~Failed(reqs[n].stage) /\ Failed(reqs'[n].stage)) =>
         /\ detailError' \in FailureMessages
         /\ reqs'[n].stage = "httpError" => detailError' = DetailHttpErrorMessage
         /\ todo' = todo]_vars

\* A failure that settled while a record of an earlier success was stored.
C10_Witness ==
  /\ todo # NoTodo
  /\ detailError # NoError
  /\ settleOrder # <<>>
  /\ Failed(reqs[LastSettled].stage)

\* ============================================ properties: later claims

Contains(msg, part) == \E i \in DOMAIN msg : msg[i] = part

\* C11: when the collection request settles with a non-success status s,
\* error becomes a message that contains s, the full collection and the
\* filtered subset stay as they were (empty), loading becomes false, and the
\* list view renders the error text and no rows.
C11_ListHttpFailure ==
  [][\A s \in Statuses : ListFetchNotOk(s) =>
       /\ Contains(error', s)
       /\ todos' = todos /\ todos = <<>>
       /\ filteredTodos' = filteredTodos /\ filteredTodos = <<>>
       /\ ~loading'
       /\ listView'.errorP = error' /\ listView'.errorP # NoError
       /\ ~listView'.ul /\ listView'.rows = <<>>]_vars

\* Scenario B: the endpoint answered 500.
C11_Witness ==
  /\ listFetch = "httpError"
  /\ Contains(error, "500")
  /\ Contains(listView.errorP, "500")
  /\ listView.rows = <<>>
  /\ ~loading

ListFailureRecorded ==
  /\ listFetch = "httpError" => error \in {HttpErrorMessage(st) : st \in Statuses}
  /\ listFetch = "networkError" => error \in {MessageOf(m) : m \in NetworkMessages}
  /\ listFetch = "parseError" => error \in {MessageOf(m) : m \in ParseMessages}

DetailFailureRecorded ==
  (settleOrder # <<>>) =>
    LET st == reqs[settleOrder[Len(settleOrder)]].stage IN
      /\ st = "httpError" => detailError = DetailHttpErrorMessage
      /\ st = "networkError" => detailError \in {MessageOf(m) : m \in NetworkMessages}
      /\ st = "parseError" => detailError \in {MessageOf(m) : m \in ParseMessages}

\* C12: in both fetch helpers every kind of failure is caught inside the
\* helper and recorded as the view's error with the failure's description;
\* the helper's promise is fulfilled once the request has settled and is
\* never rejected.
C12_FailuresContained ==
  /\ listPromise # "rejected"
  /\ ListSettled <=> listPromise = "fulfilled"
  /\ ListFailureRecorded
  /\ \A n \in DOMAIN reqs :
       /\ reqs[n].promise # "rejected"
       /\ ~Pending(n) <=> reqs[n].promise = "fulfilled"
  /\ DetailFailureRecorded

\* The list helper failed while parsing and the detail helper on the
\* network; both promises are fulfilled and both errors recorded.
C12_Witness ==
  /\ listFetch = "parseError"
  /\ listPromise = "fulfilled"
  /\ error # NoError
  /\ Len(reqs) = 1
  /\ reqs[1].stage = "networkError"
  /\ reqs[1].promise = "fulfilled"
  /\ detailError # NoError

\* C13: the detail view issues exactly one GET for the new identifier on
\* first mount and on every change of todoId, none when todoId is unchanged
\* and none after a fetch has failed.
C13_DetailIssuance ==
  [][/\ Len(reqs') \in {Len(reqs), Len(reqs) + 1}
     /\ DetailMount => Len(reqs') = Len(reqs) + 1
     /\ todoId' # todoId => Len(reqs') = Len(reqs) + 1
     /\ Len(reqs') = Len(reqs) + 1 =>
          /\ reqs = <<>> \/ todoId' # todoId
          /\ reqs'[Len(reqs')].id = todoId'
          /\ reqs'[Len(reqs')].stage = "fetching"
          /\ SubSeq(reqs', 1, Len(reqs)) = reqs]_vars

\* Mount, a failure, a change of todoId, a second failure: two requests,
\* one per identifier, and none re-issued for either failure.
C13_Witness ==
  /\ Len(reqs) = 2
  /\ reqs[1].stage = "httpError" /\ reqs[2].stage = "networkError"
  /\ reqs[1].id # reqs[2].id
  /\ reqs[2].id = todoId
  /\ detailAlive

\* C14: one mounted list view issues exactly one collection request, at
\* mount; filter selections, row activations and a failure issue none.
C14_ListIssuesOnce ==
  /\ [](listIssued = (IF listFetch = "unissued" THEN 0 ELSE 1))
  /\ [][listFetch # "unissued" => listIssued' = listIssued]_vars

\* After the load a filter was selected and a row activated: still one
\* request.
C14_Witness ==
  /\ listIssued = 1
  /\ listFetch = "ok"
  /\ activeFilter = "open"
  /\ selected # <<>>

\* C15: handleFilter(f) invoked right after handleFilter(f) leaves the
\* filtered subset and the active filter as the first invocation left them.
C15_FilterIdempotent ==
  [][\A f \in Filters :
       (lastFilter # <<>> /\ lastFilter[1] = f /\ handleFilter(f)) =>
         /\ filteredTodos' = filteredTodos
         /\ activeFilter' = activeFilter]_vars

\* "completed" was selected twice in a row on the collection of scenario A.
C15_Witness ==
  /\ lastFilter = <<"completed", "completed">>
  /\ activeFilter = "completed"
  /\ Len(todos) = 2
  /\ Len(filteredTodos) = 1

\* s is t with some items left out, order kept.
RECURSIVE IsSubSeq(_, _)
IsSubSeq(s, t) ==
  IF s = <<>> THEN TRUE
  ELSE IF t = <<>> THEN FALSE
  ELSE IF Head(s) = Head(t) THEN IsSubSeq(Tail(s), Tail(t))
  ELSE IsSubSeq(s, Tail(t))

\* C16: in every reachable state the filtered subset is a sub-sequence of
\* the full collection.
C16_FilteredWithinCollection ==
  IsSubSeq(filteredTodos, todos)

\* A proper sub-sequence: two open items out of three.
C16_Witness ==
  /\ activeFilter = "open"
  /\ Len(todos) = 3
  /\ Len(filteredTodos) = 2

\* C17: no state update is applied to a view after its teardown, whether
\* the fetch settles by success or by failure.
C17_NoUpdateAfterTeardown ==
  [][/\ ~listAlive => UNCHANGED <<todos, filteredTodos, loading, error>>
     /\ ~detailAlive => UNCHANGED <<todo, detailLoading, detailError>>]_vars

\* C18: in the list view an error and a populated collection never coexist:
\* error not null implies that the full collection and the filtered subset
\* are both empty.
C18_ErrorExcludesData ==
  error # NoError => (todos = <<>> /\ filteredTodos = <<>>)

\* The request failed and a filter was selected afterwards: still no item.
C18_Witness ==
  /\ error # NoError
  /\ listFetch = "networkError"
  /\ lastFilter = <<"open">>
  /\ filteredTodos = <<>>

\* C19: issuing a detail fetch only sets loading to true; the stored record
\* and the stored error stay as they were until a fetch settles.
C19_IssueKeepsRecordAndError ==
  [][Len(reqs') > Len(reqs) =>
       /\ detailLoading'
       /\ todo' = todo
       /\ detailError' = detailError
       /\ settleOrder' = settleOrder]_vars

\* The fetch for the new identifier is pending and the view still holds the
\* record of the previous one.
C19_Witness ==
  /\ Len(reqs) = 2
  /\ reqs[1].stage = "ok"
  /\ reqs[2].stage = "fetching"
  /\ todo # NoTodo
  /\ todo[1].id = reqs[1].id
  /\ todo[1].id # todoId
  /\ detailLoading

====
